---- MODULE Spec2Model ----
(***************************************************************************)
(* A model of web/mmix-playground.py: the StorageManager (browser          *)
(* localStorage) and the MMIXPlayground event handlers and coroutines.     *)
(*                                                                         *)
(* Texts (code, arguments, names, file contents) are sequences of          *)
(* one-character strings, so that str.strip() and Python truthiness are    *)
(* computed and not assumed.  localStorage maps each key to <<>> (getItem  *)
(* returns null) or to <<v>> (the stored string v).  Storage.setItem may   *)
(* raise (QuotaExceededError): every handler that writes draws the         *)
(* outcome of its write; Storage.getItem does not raise.                   *)
(***************************************************************************)
EXTENDS Integers, Sequences, FiniteSets, TLC

\* ------------------------------------------------------------------ bounds
\* js.Date.now() returns a value in 0..MaxNow.
MaxNow == 1
\* At most MaxTasks requests (coroutines) are in flight at a time.
MaxTasks == 2
\* In the sequential specification at most MaxOverlap requests overlap.
MaxOverlap == 1

\* ------------------------------------------------------------------ texts
Whitespace == {" "}

RECURSIVE lstrip(_)
lstrip(s) == IF s = <<>> THEN <<>>
             ELSE IF Head(s) \in Whitespace THEN lstrip(Tail(s)) ELSE s

RECURSIVE rstrip(_)
rstrip(s) == IF s = <<>> THEN <<>>
             ELSE IF s[Len(s)] \in Whitespace THEN rstrip(SubSeq(s, 1, Len(s) - 1)) ELSE s

\* str.strip()
strip(s) == rstrip(lstrip(s))

\* Python truthiness of a str, a list or a JSON text: non-empty.
truthy(s) == Len(s) > 0

\* Values the user can put into the editor, the args input and the name input,
\* file names and file contents, and the results of js.Date.now().
Codes == { <<>>, <<" ">>, <<"a">>, <<"b">> }
ArgTexts == { <<>>, <<" ">>, <<"x">>, <<" ", "x">> }
NameInputs == { <<" ">>, <<"p">>, <<"q", " ">> }
Names == { <<"p">>, <<"q">> }
FileNames == { <<"f">>, <<"g">> }
Contents == { <<>>, <<"1">>, <<"2">> }
Times == 0..MaxNow

\* ------------------------------------------------------------ localStorage
CURRENT_CODE_KEY == "mmix.currentCode"
CURRENT_ARGS_KEY == "mmix.currentArgs"
PROGRAMS_KEY == "mmix.programs"
FILES_KEY == "mmix.uploadedFiles"
Keys == { CURRENT_CODE_KEY, CURRENT_ARGS_KEY, PROGRAMS_KEY, FILES_KEY }

\* getItem's null
NoItem == <<>>
EmptyStorage == [k \in Keys |-> NoItem]

getItem(st, k) == st[k]
\* setItem when it does not raise
setItem(st, k, v) == [st EXCEPT ![k] = <<v>>]

\* json.dumps of the list of programs: a token sequence
\*   [ { name code timestamp } { name code timestamp } ... ]
RECURSIVE dumps_programs_items(_)
dumps_programs_items(programs) ==
    IF programs = <<>> THEN <<>>
    ELSE <<"{", Head(programs).name, Head(programs).code, Head(programs).timestamp, "}">>
         \o dumps_programs_items(Tail(programs))

dumps_programs(programs) == <<"[">> \o dumps_programs_items(programs) \o <<"]">>

\* json.loads of such a text
loads_programs(text) ==
    [i \in 1..((Len(text) - 2) \div 5) |->
        [name |-> text[5 * (i - 1) + 3],
         code |-> text[5 * (i - 1) + 4],
         timestamp |-> text[5 * (i - 1) + 5]]]

\* json.dumps of the list of uploaded files:  [ { name content } ... ]
RECURSIVE dumps_files_items(_)
dumps_files_items(files) ==
    IF files = <<>> THEN <<>>
    ELSE <<"{", Head(files).name, Head(files).content, "}">>
         \o dumps_files_items(Tail(files))

dumps_files(files) == <<"[">> \o dumps_files_items(files) \o <<"]">>

loads_files(text) ==
    [i \in 1..((Len(text) - 2) \div 4) |->
        [name |-> text[4 * (i - 1) + 3],
         content |-> text[4 * (i - 1) + 4]]]

\* ---------------------------------------------------------- StorageManager
\* Each writing method takes `wrote`: whether its localStorage.setItem call
\* returned (TRUE) or raised (FALSE).

save_current_code(st, code, wrote) ==
    IF wrote THEN setItem(st, CURRENT_CODE_KEY, code) ELSE st

\* A slip: blank code counts as no code.
load_current_code_blank(st) ==
    LET code == getItem(st, CURRENT_CODE_KEY)
    IN  IF code # NoItem /\ truthy(strip(code[1])) THEN code[1] ELSE <<>>

load_current_code(st) ==
    LET code == getItem(st, CURRENT_CODE_KEY)
    IN  IF code # NoItem /\ truthy(code[1]) THEN code[1] ELSE <<>>

\* A slip: the arguments are written under the key of the code.
save_current_args_code_key(st, args, wrote) ==
    IF wrote THEN setItem(st, CURRENT_CODE_KEY, args) ELSE st

save_current_args(st, args, wrote) ==
    IF wrote THEN setItem(st, CURRENT_ARGS_KEY, args) ELSE st

load_current_args(st) ==
    LET args == getItem(st, CURRENT_ARGS_KEY)
    IN  IF args # NoItem /\ truthy(args[1]) THEN args[1] ELSE <<>>

get_programs(st) ==
    LET programs_json == getItem(st, PROGRAMS_KEY)
    IN  IF programs_json # NoItem /\ truthy(programs_json[1])
        THEN loads_programs(programs_json[1])
        ELSE <<>>

\* The index of the first entry of `list` named `name`, 0 when there is none
\* (the for ... break loops of save_program and save_uploaded_file).
first_named(list, name) ==
    IF \E i \in 1..Len(list) : list[i].name = name
    THEN CHOOSE i \in 1..Len(list) :
            /\ list[i].name = name
            /\ \A j \in 1..(i - 1) : list[j].name # name
    ELSE 0

\* A slip: the for loop never matches, so every save appends.
save_program_list_always_appends(programs, name, code, now) ==
    Append(programs, [name |-> name, code |-> code, timestamp |-> now])

\* A slip: an update writes to the first entry instead of the entry found.
save_program_list_updates_first(programs, name, code, now) ==
    LET i == first_named(programs, name)
    IN  IF i # 0
        THEN [programs EXCEPT ![1] = [name |-> programs[1].name, code |-> code, timestamp |-> now]]
        ELSE Append(programs, [name |-> name, code |-> code, timestamp |-> now])

\* The list a save_program call writes.
save_program_list(programs, name, code, now) ==
    LET i == first_named(programs, name)
    IN  IF i # 0
        THEN [programs EXCEPT ![i] = [name |-> programs[i].name, code |-> code, timestamp |-> now]]
        ELSE Append(programs, [name |-> name, code |-> code, timestamp |-> now])

\* save_program: the storage after the call and the value returned.
save_program(st, name, code, now, wrote) ==
    LET programs == save_program_list(get_programs(st), name, code, now)
    IN  IF wrote
        THEN [storage |-> setItem(st, PROGRAMS_KEY, dumps_programs(programs)), ret |-> TRUE]
        ELSE [storage |-> st, ret |-> FALSE]

\* A slip: the filter stops at the first entry named `name` and drops the rest.
RECURSIVE without_name_cuts(_, _)
without_name_cuts(list, name) ==
    IF list = <<>> THEN <<>>
    ELSE IF Head(list).name # name
         THEN <<Head(list)>> \o without_name_cuts(Tail(list), name)
         ELSE <<>>

\* [p for p in programs if p["name"] != name]
RECURSIVE without_name(_, _)
without_name(list, name) ==
    IF list = <<>> THEN <<>>
    ELSE IF Head(list).name # name
         THEN <<Head(list)>> \o without_name(Tail(list), name)
         ELSE without_name(Tail(list), name)

delete_program(st, name, wrote) ==
    LET programs == without_name(get_programs(st), name)
    IN  IF wrote
        THEN [storage |-> setItem(st, PROGRAMS_KEY, dumps_programs(programs)), ret |-> TRUE]
        ELSE [storage |-> st, ret |-> FALSE]

get_uploaded_files(st) ==
    LET files_json == getItem(st, FILES_KEY)
    IN  IF files_json # NoItem /\ truthy(files_json[1])
        THEN loads_files(files_json[1])
        ELSE <<>>

\* A slip: a file that exists keeps its old content.
save_uploaded_file_list_keeps_old(files, filename, content) ==
    LET i == first_named(files, filename)
    IN  IF i # 0
        THEN files
        ELSE Append(files, [name |-> filename, content |-> content])

\* The list a save_uploaded_file call writes.
save_uploaded_file_list(files, filename, content) ==
    LET i == first_named(files, filename)
    IN  IF i # 0
        THEN [files EXCEPT ![i] = [name |-> files[i].name, content |-> content]]
        ELSE Append(files, [name |-> filename, content |-> content])

save_uploaded_file(st, filename, content, wrote) ==
    LET files == save_uploaded_file_list(get_uploaded_files(st), filename, content)
    IN  IF wrote
        THEN [storage |-> setItem(st, FILES_KEY, dumps_files(files)), ret |-> TRUE]
        ELSE [storage |-> st, ret |-> FALSE]

delete_uploaded_file(st, filename, wrote) ==
    LET files == without_name(get_uploaded_files(st), filename)
    IN  IF wrote
        THEN [storage |-> setItem(st, FILES_KEY, dumps_files(files)), ret |-> TRUE]
        ELSE [storage |-> st, ret |-> FALSE]

\* ------------------------------------------------------------- the page
\* The example programs embedded in the page (the "example-programs" script):
\* none, the default "hello" example and another one, or only another one.
HelloKey == <<"h", "e", "l", "l", "o">>
FibKey == <<"f", "i", "b">>
NoKey == <<"n", "o">>
ExampleKeys == { HelloKey, FibKey, NoKey }
HelloExample == [name |-> <<"H">>, code |-> <<"h">>]
FibExample == [name |-> <<"F">>, code |-> <<"f">>]
EmbeddedExamples ==
    { [k \in {} |-> HelloExample],
      [k \in {HelloKey, FibKey} |-> IF k = HelloKey THEN HelloExample ELSE FibExample],
      [k \in {FibKey} |-> FibExample] }

\* The content of the elements of a freshly loaded page.
EmptyText == <<>>
\* Python's None
None == <<>>

\* A message written to the error pane: the text and the value formatted into it.
Msg(text, arg) == [text |-> text, arg |-> arg]
NoMsg == Msg("", <<>>)

\* The record of the coroutine step that ran last: the request, its coroutine, the
\* step, the result of its assemble call, the object code its run_simulation call
\* was given and the result of that call (None where there is none yet).
Log(req, kind, step, asm, sim_object, sim) ==
    [req |-> req, kind |-> kind, step |-> step, asm |-> asm, sim_object |-> sim_object, sim |-> sim]
NoLog == Log(0, "", "", None, None, None)

\* No overlapping assembly request has been launched.
NoLatest == [req |-> 0, overlapped |-> FALSE, produced |-> None]

VARIABLES
    storage,            \* localStorage: key -> NoItem or <<value>>
    examples,           \* self.examples
    editor,             \* #code-editor .value
    args_input,         \* #args-input .value
    args_display,       \* #args-display .style.display
    args_display_value, \* #args-display-value .value
    save_name_input,    \* #save-name-input .value
    files_modal,        \* #files-modal has class "show"
    args_modal,         \* #args-modal has class "show"
    programs_list,      \* #programs-list: the names listed
    examples_list,      \* #examples-list: the keys listed
    data_files_list,    \* #data-files-list: the names listed
    error_output,       \* #error-output .textContent
    listing_output,     \* #listing-output .textContent
    simulation_output,  \* #simulation-output .textContent
    active_tab,         \* the output tab with class "active"
    run_btn_disabled,   \* #run-btn .disabled
    assemble_btn_disabled, \* #assemble-btn .disabled
    mmixal_factory,     \* self.mmixal_factory: None or <<factory>>
    mmix_factory,       \* self.mmix_factory
    object_code,        \* self.object_code: None or <<bytes>>
    loader,             \* position of load_modules_async
    tasks,              \* the coroutines in flight
    run_log,            \* history: the coroutine step that ran last
    latest,             \* history: the assembly request launched last, if it overlaps
    mmixOutputCapture,  \* window.mmixOutputCapture
    last,               \* history: the handler that ran last and the branch it took
    saved,              \* history: name -> the code of its last save_program that returned True
    uploaded,           \* history: file name -> the content of its last upload since it was deleted
    uploaded_ok,        \* history: the same, of its last upload that returned True
    code_event          \* history: the last code-changing event of this session

dom_vars == <<editor, args_input, args_display, args_display_value, save_name_input,
              files_modal, args_modal, programs_list, examples_list, data_files_list,
              error_output, listing_output, simulation_output, active_tab,
              run_btn_disabled, assemble_btn_disabled>>
run_vars == <<mmixal_factory, mmix_factory, object_code, loader, tasks, run_log,
              latest, mmixOutputCapture>>
hist_vars == <<last, saved, uploaded, uploaded_ok, code_event>>
vars == <<storage, examples, dom_vars, run_vars, hist_vars>>

\* The record of the handler that ran last.
Last(op, name, branch, wrote) == [op |-> op, name |-> name, branch |-> branch, wrote |-> wrote]

\* ------------------------------------------------------- MMIXPlayground
\* A slip: the default example wins over the saved code.
restore_code_editor_hello_first(st, ex, ed) ==
    LET saved_code == load_current_code(st)
    IN  IF HelloKey \in DOMAIN ex THEN ex[HelloKey].code
        ELSE IF truthy(saved_code) THEN saved_code
        ELSE ed

\* restore_code: the editor content after it.
restore_code_editor(st, ex, ed) ==
    LET saved_code == load_current_code(st)
    IN  IF truthy(saved_code) THEN saved_code
        ELSE IF HelloKey \in DOMAIN ex THEN ex[HelloKey].code
        ELSE ed

\* restore_code: the branch taken for the editor.
restore_code_branch(st, ex) ==
    IF truthy(load_current_code(st)) THEN "saved"
    ELSE IF HelloKey \in DOMAIN ex THEN "hello"
    ELSE "none"

\* A slip: the input is not stripped.
update_args_display_raw(input, display, value) ==
    IF truthy(input)
    THEN [display |-> "flex", value |-> input]
    ELSE [display |-> "none", value |-> value]

\* update_args_display: the display row and its value, from the args input.
update_args_display(input, display, value) ==
    LET args == strip(input)
    IN  IF truthy(args)
        THEN [display |-> "flex", value |-> args]
        ELSE [display |-> "none", value |-> value]

\* restore_code: the args input, the display row and its value after it.
restore_code_args(st, input, display, value) ==
    LET saved_args == load_current_args(st)
    IN  IF truthy(saved_args)
        THEN [input |-> saved_args] @@ update_args_display(saved_args, display, value)
        ELSE [input |-> input, display |-> display, value |-> value]

\* The names (keys) a populate_*_list call renders.
names_of(list) == [i \in 1..Len(list) |-> list[i].name]

\* MMIXPlayground.__init__ on a freshly loaded page whose localStorage is st:
\* the elements and the attributes after load_examples, setup_ui and restore_code,
\* with load_modules_async scheduled.
PageState(st, ex) ==
    LET a == restore_code_args(st, EmptyText, "", EmptyText)
    IN  [editor |-> restore_code_editor(st, ex, EmptyText),
         args_input |-> a.input,
         args_display |-> a.display,
         args_display_value |-> a.value]

InitWith(ex) ==
    /\ storage = EmptyStorage
    /\ examples = ex
    /\ editor = PageState(storage, examples).editor
    /\ args_input = PageState(storage, examples).args_input
    /\ args_display = PageState(storage, examples).args_display
    /\ args_display_value = PageState(storage, examples).args_display_value
    /\ save_name_input = EmptyText
    /\ files_modal = FALSE
    /\ args_modal = FALSE
    /\ programs_list = <<>>
    /\ examples_list = <<>>
    /\ data_files_list = <<>>
    /\ error_output = NoMsg
    /\ listing_output = EmptyText
    /\ simulation_output = EmptyText
    /\ active_tab = "output"
    /\ run_btn_disabled = TRUE
    /\ assemble_btn_disabled = TRUE
    /\ mmixal_factory = None
    /\ mmix_factory = None
    /\ object_code = None
    /\ loader = "start"
    /\ tasks = <<>>
    /\ run_log = NoLog
    /\ latest = NoLatest
    /\ mmixOutputCapture = <<>>
    /\ last = Last("init", <<>>, restore_code_branch(storage, examples), FALSE)
    /\ saved = [n \in Names |-> NoItem]
    /\ uploaded = [f \in FileNames |-> NoItem]
    /\ uploaded_ok = [f \in FileNames |-> NoItem]
    /\ code_event = NoItem

\* ---------------------------------------------- handlers: code and args
\* The history of code-changing events: this one, in the current session.
CodeEvent(code, wrote) == <<[code |-> code, wrote |-> wrote, session |-> "current"]>>

\* The user edits the code (the editor's input event): on_code_change.
on_code_change(code, wrote) ==
    /\ editor' = code
    /\ storage' = save_current_code(storage, editor', wrote)
    /\ last' = Last("on_code_change", <<>>, "saved", wrote)
    /\ code_event' = CodeEvent(editor', wrote)
    /\ UNCHANGED <<examples, args_input, args_display, args_display_value, save_name_input,
                   files_modal, args_modal, programs_list, examples_list, data_files_list,
                   error_output, listing_output, simulation_output, active_tab,
                   run_btn_disabled, assemble_btn_disabled, run_vars,
                   saved, uploaded, uploaded_ok>>

\* The user edits the arguments (the args input's input event): on_args_change.
on_args_change(args, wrote) ==
    LET d == update_args_display(args, args_display, args_display_value)
    IN  /\ args_input' = args
        /\ storage' = save_current_args(storage, args_input', wrote)
        /\ args_display' = d.display
        /\ args_display_value' = d.value
        /\ last' = Last("on_args_change", <<>>, "saved", wrote)
        /\ UNCHANGED <<examples, editor, save_name_input,
                       files_modal, args_modal, programs_list, examples_list, data_files_list,
                       error_output, listing_output, simulation_output, active_tab,
                       run_btn_disabled, assemble_btn_disabled, run_vars,
                       saved, uploaded, uploaded_ok, code_event>>

on_args_clear(wrote) ==
    LET d == update_args_display(<<>>, args_display, args_display_value)
    IN  /\ args_input' = <<>>
        /\ storage' = save_current_args(storage, <<>>, wrote)
        /\ args_display' = d.display
        /\ args_display_value' = d.value
        /\ last' = Last("on_args_clear", <<>>, "saved", wrote)
        /\ UNCHANGED <<examples, editor, save_name_input,
                       files_modal, args_modal, programs_list, examples_list, data_files_list,
                       error_output, listing_output, simulation_output, active_tab,
                       run_btn_disabled, assemble_btn_disabled, run_vars,
                       saved, uploaded, uploaded_ok, code_event>>

on_edit_args_click ==
    /\ args_modal' = TRUE
    /\ last' = Last("on_edit_args_click", <<>>, "shown", FALSE)
    /\ UNCHANGED <<storage, examples, editor, args_input, args_display, args_display_value,
                   save_name_input, files_modal, programs_list, examples_list,
                   data_files_list, error_output, listing_output, simulation_output,
                   active_tab, run_btn_disabled, assemble_btn_disabled, run_vars,
                   saved, uploaded, uploaded_ok, code_event>>

on_args_done ==
    /\ args_modal' = FALSE
    /\ last' = Last("on_args_done", <<>>, "hidden", FALSE)
    /\ UNCHANGED <<storage, examples, editor, args_input, args_display, args_display_value,
                   save_name_input, files_modal, programs_list, examples_list,
                   data_files_list, error_output, listing_output, simulation_output,
                   active_tab, run_btn_disabled, assemble_btn_disabled, run_vars,
                   saved, uploaded, uploaded_ok, code_event>>

\* ------------------------------------------------- handlers: files modal
on_files_click ==
    /\ programs_list' = names_of(get_programs(storage))
    /\ examples_list' = examples
    /\ data_files_list' = names_of(get_uploaded_files(storage))
    /\ files_modal' = TRUE
    /\ last' = Last("on_files_click", <<>>, "shown", FALSE)
    /\ UNCHANGED <<storage, examples, editor, args_input, args_display, args_display_value,
                   save_name_input, args_modal, error_output, listing_output,
                   simulation_output, active_tab, run_btn_disabled, assemble_btn_disabled,
                   run_vars, saved, uploaded, uploaded_ok, code_event>>

on_modal_cancel ==
    /\ files_modal' = FALSE
    /\ args_modal' = FALSE
    /\ last' = Last("on_modal_cancel", <<>>, "hidden", FALSE)
    /\ UNCHANGED <<storage, examples, editor, args_input, args_display, args_display_value,
                   save_name_input, programs_list, examples_list, data_files_list,
                   error_output, listing_output, simulation_output, active_tab,
                   run_btn_disabled, assemble_btn_disabled, run_vars,
                   saved, uploaded, uploaded_ok, code_event>>

\* The user has typed `raw` into the name input and clicks Save.
on_save_confirm(raw, now, wrote) ==
    LET name == strip(raw)
        r == save_program(storage, name, editor, now, wrote)
    IN  /\ IF ~truthy(name)
           THEN /\ save_name_input' = raw
                /\ error_output' = Msg("Please enter a program name", <<>>)
                /\ last' = Last("on_save_confirm", name, "no_name", FALSE)
                /\ UNCHANGED <<storage, programs_list, saved>>
           ELSE /\ storage' = r.storage
                /\ IF r.ret
                   THEN /\ save_name_input' = <<>>
                        /\ programs_list' = names_of(get_programs(storage'))
                        /\ saved' = [saved EXCEPT ![name] = <<editor>>]
                        /\ last' = Last("on_save_confirm", name, "saved", TRUE)
                        /\ UNCHANGED error_output
                   ELSE /\ save_name_input' = raw
                        /\ error_output' = Msg("Failed to save program", <<>>)
                        /\ saved' = [saved EXCEPT ![name] = NoItem]
                        /\ last' = Last("on_save_confirm", name, "failed", FALSE)
                        /\ UNCHANGED programs_list
        /\ UNCHANGED <<examples, editor, args_input, args_display, args_display_value,
                       files_modal, args_modal, examples_list, data_files_list,
                       listing_output, simulation_output, active_tab,
                       run_btn_disabled, assemble_btn_disabled, run_vars,
                       uploaded, uploaded_ok, code_event>>

\* A slip: the loop stops at the first program whatever its name.
load_program_find_first(programs, name) == IF Len(programs) > 0 THEN 1 ELSE 0

\* The index of the first program named `name`, as load_program's loop finds it.
load_program_find(programs, name) == first_named(programs, name)

load_program(name, wrote) ==
    LET programs == get_programs(storage)
        i == load_program_find(programs, name)
    IN  /\ IF i # 0
           THEN /\ editor' = programs[i].code
                /\ storage' = save_current_code(storage, programs[i].code, wrote)
                /\ files_modal' = FALSE
                /\ code_event' = CodeEvent(editor', wrote)
                /\ last' = Last("load_program", name, "found", wrote)
                /\ UNCHANGED error_output
           ELSE /\ error_output' = Msg("Program '{name}' not found", name)
                /\ last' = Last("load_program", name, "not_found", FALSE)
                /\ UNCHANGED <<editor, storage, files_modal, code_event>>
        /\ UNCHANGED <<examples, args_input, args_display, args_display_value,
                       save_name_input, args_modal, programs_list, examples_list,
                       data_files_list, listing_output, simulation_output, active_tab,
                       run_btn_disabled, assemble_btn_disabled, run_vars,
                       saved, uploaded, uploaded_ok>>

load_example(key, wrote) ==
    /\ IF key \in DOMAIN examples
       THEN /\ editor' = examples[key].code
            /\ storage' = save_current_code(storage, examples[key].code, wrote)
            /\ files_modal' = FALSE
            /\ code_event' = CodeEvent(editor', wrote)
            /\ last' = Last("load_example", key, "found", wrote)
            /\ UNCHANGED error_output
       ELSE /\ error_output' = Msg("Example '{key}' not found", key)
            /\ last' = Last("load_example", key, "not_found", FALSE)
            /\ UNCHANGED <<editor, storage, files_modal, code_event>>
    /\ UNCHANGED <<examples, args_input, args_display, args_display_value,
                   save_name_input, args_modal, programs_list, examples_list,
                   data_files_list, listing_output, simulation_output, active_tab,
                   run_btn_disabled, assemble_btn_disabled, run_vars,
                   saved, uploaded, uploaded_ok>>

\* MMIXPlayground.delete_program
playground_delete_program(name, wrote) ==
    LET r == delete_program(storage, name, wrote)
    IN  /\ storage' = r.storage
        /\ IF r.ret
           THEN /\ programs_list' = names_of(get_programs(storage'))
                /\ last' = Last("delete_program", name, "deleted", TRUE)
                /\ UNCHANGED error_output
           ELSE /\ error_output' = Msg("Failed to delete program '{name}'", name)
                /\ last' = Last("delete_program", name, "failed", FALSE)
                /\ UNCHANGED programs_list
        /\ saved' = [saved EXCEPT ![name] = NoItem]
        /\ UNCHANGED <<examples, editor, args_input, args_display, args_display_value,
                       save_name_input, files_modal, args_modal, examples_list,
                       data_files_list, listing_output, simulation_output, active_tab,
                       run_btn_disabled, assemble_btn_disabled, run_vars,
                       uploaded, uploaded_ok, code_event>>

\* on_import_file_selected: the FileReader's on_load callback with the file's text.
on_import_file_selected(code, wrote) ==
    /\ editor' = code
    /\ storage' = save_current_code(storage, code, wrote)
    /\ code_event' = CodeEvent(editor', wrote)
    /\ last' = Last("on_import_file_selected", <<>>, "imported", wrote)
    /\ UNCHANGED <<examples, args_input, args_display, args_display_value, save_name_input,
                   files_modal, args_modal, programs_list, examples_list, data_files_list,
                   error_output, listing_output, simulation_output, active_tab,
                   run_btn_disabled, assemble_btn_disabled, run_vars,
                   saved, uploaded, uploaded_ok>>

on_export_click ==
    /\ IF ~truthy(strip(editor))
       THEN error_output' = Msg("No code to export", <<>>)
       ELSE UNCHANGED error_output
    /\ last' = Last("on_export_click", <<>>, IF truthy(strip(editor)) THEN "exported" ELSE "no_code", FALSE)
    /\ UNCHANGED <<storage, examples, editor, args_input, args_display, args_display_value,
                   save_name_input, files_modal, args_modal, programs_list, examples_list,
                   data_files_list, listing_output, simulation_output, active_tab,
                   run_btn_disabled, assemble_btn_disabled, run_vars,
                   saved, uploaded, uploaded_ok, code_event>>

\* on_data_file_selected: the FileReader's on_load callback with the file's text.
on_data_file_selected(filename, content, wrote) ==
    LET r == save_uploaded_file(storage, filename, content, wrote)
    IN  /\ storage' = r.storage
        /\ IF r.ret
           THEN /\ data_files_list' = names_of(get_uploaded_files(storage'))
                /\ uploaded_ok' = [uploaded_ok EXCEPT ![filename] = <<content>>]
                /\ last' = Last("on_data_file_selected", filename, "uploaded", TRUE)
                /\ UNCHANGED error_output
           ELSE /\ error_output' = Msg("Failed to upload {file.name}", filename)
                /\ last' = Last("on_data_file_selected", filename, "failed", FALSE)
                /\ UNCHANGED <<data_files_list, uploaded_ok>>
        /\ uploaded' = [uploaded EXCEPT ![filename] = <<content>>]
        /\ UNCHANGED <<examples, editor, args_input, args_display, args_display_value,
                       save_name_input, files_modal, args_modal, programs_list,
                       examples_list, listing_output, simulation_output, active_tab,
                       run_btn_disabled, assemble_btn_disabled, run_vars,
                       saved, code_event>>

delete_file(name, wrote) ==
    LET r == delete_uploaded_file(storage, name, wrote)
    IN  /\ storage' = r.storage
        /\ IF r.ret
           THEN /\ data_files_list' = names_of(get_uploaded_files(storage'))
                /\ last' = Last("delete_file", name, "deleted", TRUE)
                /\ uploaded' = [uploaded EXCEPT ![name] = NoItem]
                /\ uploaded_ok' = [uploaded_ok EXCEPT ![name] = NoItem]
                /\ UNCHANGED error_output
           ELSE /\ error_output' = Msg("Failed to delete file '{name}'", name)
                /\ last' = Last("delete_file", name, "failed", FALSE)
                /\ UNCHANGED <<data_files_list, uploaded, uploaded_ok>>
        /\ UNCHANGED <<examples, editor, args_input, args_display, args_display_value,
                       save_name_input, files_modal, args_modal, programs_list,
                       examples_list, listing_output, simulation_output, active_tab,
                       run_btn_disabled, assemble_btn_disabled, run_vars,
                       saved, code_event>>

\* The page is loaded again (a new session): every element and the Python state
\* start afresh, localStorage is kept, and MMIXPlayground.__init__ runs.
page_load ==
    /\ editor' = PageState(storage, examples).editor
    /\ args_input' = PageState(storage, examples).args_input
    /\ args_display' = PageState(storage, examples).args_display
    /\ args_display_value' = PageState(storage, examples).args_display_value
    /\ save_name_input' = EmptyText
    /\ files_modal' = FALSE
    /\ args_modal' = FALSE
    /\ programs_list' = <<>>
    /\ examples_list' = <<>>
    /\ data_files_list' = <<>>
    /\ error_output' = NoMsg
    /\ listing_output' = EmptyText
    /\ simulation_output' = EmptyText
    /\ active_tab' = "output"
    /\ run_btn_disabled' = TRUE
    /\ assemble_btn_disabled' = TRUE
    /\ mmixal_factory' = None
    /\ mmix_factory' = None
    /\ object_code' = None
    /\ loader' = "start"
    /\ tasks' = <<>>
    /\ run_log' = NoLog
    /\ latest' = NoLatest
    /\ mmixOutputCapture' = <<>>
    /\ last' = Last("page_load", <<>>, restore_code_branch(storage, examples), FALSE)
    /\ code_event' = IF code_event # NoItem /\ code_event[1].session = "current"
                     THEN <<[code_event[1] EXCEPT !.session = "previous"]>>
                     ELSE NoItem
    /\ UNCHANGED <<storage, examples, saved, uploaded, uploaded_ok>>

\* ------------------------------------------------- assembler and simulator
\* The assembler and the simulator are opaque modules: what they produce is drawn
\* by the steps below.  The object code and the listing the assembler writes for a
\* source, and the line the simulator prints for a request.
ObjectOf(source) == <<"mmo", source>>
ListingOf(source) == <<"lst", source>>
LineOf(req) == <<"out", req>>
EmptyBytes == <<>>
\* A line of output is the text with the request whose simulator printed it; the
\* placeholder is printed by no simulator.
NoOutputText == << <<"(Program completed with no output)", 0>> >>

\* Exit codes of mmixal and of mmix, and the console output of mmixal.
AsmExitCodes == {0, 1}
SimExitCodes == {-1, 0, 127, 128}
ConsoleOutputs == { <<>>, <<"w">> }

\* An assemble that took any object file that could be read, empty or not.
has_object_code_read(obj) == obj # None

\* assemble: has_object_code.
has_object_code(obj) == obj # None /\ Len(obj[1]) > 0

\* assemble: the dictionary returned when no exception was raised.
assemble_result(listing, obj, exit_code, console_output) ==
    [success |-> exit_code = 0 /\ has_object_code(obj),
     listing |-> <<listing>>,
     object_code |-> obj,
     exit_code |-> <<exit_code>>,
     console_output |-> console_output,
     error |-> None]

\* assemble: the dictionary returned by the except branch.
assemble_exception(e) ==
    [success |-> FALSE,
     listing |-> None,
     object_code |-> None,
     exit_code |-> None,
     console_output |-> <<>>,
     error |-> <<e>>]

\* assemble: str(e) of the exceptions that reach the outer except, raised while the
\* module instance is created, while the source is written, or by the assembler.
AssembleExceptions ==
    { "mmixal_factory raised", "FS.writeFile raised", "callMain raised" }

\* What an assemble(source) call can return: an exception, or any exit code with
\* the object file unreadable, empty or written; mmixal prints nothing when it
\* exits with 0 and has written no object file, and may print otherwise.  mmixal
\* is called with -l and -o: the listing can be read whenever the object file can.
AssembleResults(source) ==
    { assemble_exception(e) : e \in AssembleExceptions } \cup
    { assemble_result(IF t[1] = None THEN EmptyText ELSE ListingOf(source),
                      t[1], t[2], t[3]) :
          t \in { u \in { None, <<EmptyBytes>>, <<ObjectOf(source)>> }
                        \X AsmExitCodes \X ConsoleOutputs :
                    \/ u[3] = <<>> /\ u[2] = 0
                    \/ u[3] # <<>> /\ (u[2] # 0 \/ u[1] = <<ObjectOf(source)>>) } }

\* A run_simulation that took exit code 128 for a normal one.
is_success_upto_128(exit_code) == exit_code >= 0 /\ exit_code <= 128

\* run_simulation: is_success.
is_success(exit_code) == exit_code >= 0 /\ exit_code < 128

\* run_simulation: the text joined from window.mmixOutputCapture, or the placeholder.
simulation_output_text(captured) == IF truthy(captured) THEN captured ELSE NoOutputText

\* run_simulation: the dictionary returned when no exception was raised.
simulation_result(captured, exit_code) ==
    [success |-> is_success(exit_code),
     output |-> simulation_output_text(captured),
     exit_code |-> <<exit_code>>,
     error |-> None]

\* run_simulation: the dictionary returned by the except branch.
simulation_exception(e) ==
    [success |-> FALSE, output |-> <<>>, exit_code |-> None, error |-> <<e>>]

\* A coroutine that showed nothing when the assembly failed.
assembly_error_msg_blank(result) == NoMsg

\* error_msg of a failed assembly: result.get("error", "Assembly failed"), followed
\* by the console output when there is some.
assembly_error_msg(result) ==
    Msg(IF result.error # None THEN result.error[1] ELSE "Assembly failed",
        IF truthy(result.console_output) THEN result.console_output ELSE <<>>)

\* error_msg of a failed simulation.
simulation_error_msg(result) ==
    Msg(IF result.error # None THEN result.error[1] ELSE "Simulation failed",
        IF truthy(result.output) THEN result.output ELSE <<>>)

\* The assembly requests in flight.
assembling(ts) == { i \in 1..Len(ts) : ts[i].kind # "run" }

\* The latest overlapping request is remembered until a handler runs with no
\* assembly request in flight.
kept_latest == IF assembling(tasks) = {} THEN NoLatest ELSE latest

\* --------------------------------------------------- load_modules_async
\* load_modules_async starts and awaits the import of mmixal.js.
load_modules_start ==
    /\ loader = "start"
    /\ loader' = "await_mmixal"
    /\ last' = Last("load_modules_async", <<>>, "started", FALSE)
    /\ run_log' = NoLog
    /\ latest' = kept_latest
    /\ UNCHANGED <<storage, examples, dom_vars, mmixal_factory, mmix_factory, object_code,
                   tasks, mmixOutputCapture, saved, uploaded, uploaded_ok, code_event>>

\* The import of mmixal.js resolves (ok) or is rejected.
load_modules_mmixal(ok) ==
    /\ loader = "await_mmixal"
    /\ IF ok
       THEN /\ mmixal_factory' = <<"mmixal">>
            /\ loader' = "await_mmix"
            /\ UNCHANGED error_output
       ELSE /\ error_output' = Msg("Error loading modules: {e}", <<>>)
            /\ loader' = "failed"
            /\ UNCHANGED mmixal_factory
    /\ last' = Last("load_modules_async", <<>>, IF ok THEN "mmixal" ELSE "failed", FALSE)
    /\ run_log' = NoLog
    /\ latest' = kept_latest
    /\ UNCHANGED <<storage, examples, editor, args_input, args_display, args_display_value,
                   save_name_input, files_modal, args_modal, programs_list, examples_list,
                   data_files_list, listing_output, simulation_output, active_tab,
                   run_btn_disabled, assemble_btn_disabled, mmix_factory, object_code,
                   tasks, mmixOutputCapture, saved, uploaded, uploaded_ok, code_event>>

\* The import of mmix.js resolves (ok) or is rejected.
load_modules_mmix(ok) ==
    /\ loader = "await_mmix"
    /\ IF ok
       THEN /\ mmix_factory' = <<"mmix">>
            /\ error_output' = Msg("Modules loaded and ready!", <<>>)
            /\ assemble_btn_disabled' = FALSE
            /\ loader' = "done"
       ELSE /\ error_output' = Msg("Error loading modules: {e}", <<>>)
            /\ loader' = "failed"
            /\ UNCHANGED <<mmix_factory, assemble_btn_disabled>>
    /\ last' = Last("load_modules_async", <<>>, IF ok THEN "mmix" ELSE "failed", FALSE)
    /\ run_log' = NoLog
    /\ latest' = kept_latest
    /\ UNCHANGED <<storage, examples, editor, args_input, args_display, args_display_value,
                   save_name_input, files_modal, args_modal, programs_list, examples_list,
                   data_files_list, listing_output, simulation_output, active_tab,
                   run_btn_disabled, mmixal_factory, object_code,
                   tasks, mmixOutputCapture, saved, uploaded, uploaded_ok, code_event>>

\* ------------------------------------------------------ request handlers
\* A coroutine handed to asyncio.ensure_future: it starts at a later turn of the
\* event loop.  code is its argument (None for _do_run), result the value of its
\* assemble call and sim_object the argument of its run_simulation call.
Task(req, kind, code) ==
    [req |-> req, kind |-> kind, pc |-> "start", code |-> code,
     result |-> None, sim_object |-> None]

\* The number given to a new request: the smallest one no coroutine in flight has.
free_req(ts) == CHOOSE r \in 1..(Len(ts) + 1) : \A i \in 1..Len(ts) : ts[i].req # r

ensure_future(ts, kind, code) == Append(ts, Task(free_req(ts), kind, code))

\* An on_assemble_run_click that asked for the assembler factory alone.
assemble_run_not_loaded_mmixal_only(mmixal, mmix) == mmixal = None

\* on_assemble_run_click: the modules are not loaded.
assemble_run_not_loaded(mmixal, mmix) == mmixal = None \/ mmix = None

\* on_assemble_click: the module is not loaded.
assemble_not_loaded(mmixal) == mmixal = None

\* The assembly request launched last, when it was launched while an earlier
\* assembly request was still in flight, and the result its assemble call returned.
launched_latest(ts) ==
    IF assembling(ts) # {}
    THEN [req |-> free_req(ts), overlapped |-> TRUE, produced |-> None]
    ELSE NoLatest
\* What a request produces: the object code and the listing of a successful
\* assembly, which enables the run button, or a failure, which disables it.
produced_by(result) ==
    IF result.success
    THEN [success |-> TRUE, object_code |-> result.object_code, listing |-> result.listing]
    ELSE [success |-> FALSE, object_code |-> None, listing |-> None]
produced_latest(req, result) ==
    IF latest.overlapped /\ latest.req = req /\ latest.produced = None
    THEN [latest EXCEPT !.produced = <<produced_by(result)>>]
    ELSE latest

\* The body of on_assemble_run_click: the error pane, the coroutines and the branch.
assemble_run_click(op) ==
    IF assemble_run_not_loaded(mmixal_factory, mmix_factory)
    THEN /\ error_output' = Msg("MMIX modules not loaded yet. Please wait...", <<>>)
         /\ last' = Last(op, <<>>, "not_loaded", FALSE)
         /\ latest' = kept_latest
         /\ UNCHANGED tasks
    ELSE IF ~truthy(strip(editor))
    THEN /\ error_output' = Msg("Please enter some MMIX code to assemble.", <<>>)
         /\ last' = Last(op, <<>>, "no_code", FALSE)
         /\ latest' = kept_latest
         /\ UNCHANGED tasks
    ELSE /\ Len(tasks) < MaxTasks
         /\ tasks' = ensure_future(tasks, "assemble_and_run", <<editor>>)
         /\ latest' = launched_latest(tasks)
         /\ last' = Last(op, <<>>, "launched", FALSE)
         /\ UNCHANGED error_output

on_assemble_run_click ==
    /\ assemble_run_click("on_assemble_run_click")
    /\ run_log' = NoLog
    /\ UNCHANGED <<storage, examples, editor, args_input, args_display, args_display_value,
                   save_name_input, files_modal, args_modal, programs_list, examples_list,
                   data_files_list, listing_output, simulation_output, active_tab,
                   run_btn_disabled, assemble_btn_disabled, mmixal_factory, mmix_factory,
                   object_code, loader, mmixOutputCapture,
                   saved, uploaded, uploaded_ok, code_event>>

on_assemble_click ==
    /\ IF assemble_not_loaded(mmixal_factory)
       THEN /\ error_output' = Msg("MMIX modules not loaded yet. Please wait...", <<>>)
            /\ last' = Last("on_assemble_click", <<>>, "not_loaded", FALSE)
            /\ latest' = kept_latest
         /\ UNCHANGED tasks
       ELSE IF ~truthy(strip(editor))
       THEN /\ error_output' = Msg("Please enter some MMIX code to assemble.", <<>>)
            /\ last' = Last("on_assemble_click", <<>>, "no_code", FALSE)
            /\ latest' = kept_latest
         /\ UNCHANGED tasks
       ELSE /\ Len(tasks) < MaxTasks
            /\ tasks' = ensure_future(tasks, "assemble", <<editor>>)
            /\ latest' = launched_latest(tasks)
            /\ last' = Last("on_assemble_click", <<>>, "launched", FALSE)
            /\ UNCHANGED error_output
    /\ run_log' = NoLog
    /\ UNCHANGED <<storage, examples, editor, args_input, args_display, args_display_value,
                   save_name_input, files_modal, args_modal, programs_list, examples_list,
                   data_files_list, listing_output, simulation_output, active_tab,
                   run_btn_disabled, assemble_btn_disabled, mmixal_factory, mmix_factory,
                   object_code, loader, mmixOutputCapture,
                   saved, uploaded, uploaded_ok, code_event>>

\* A key goes down in the editor: Ctrl-Enter or Cmd-Enter is Assemble & Run.
on_editor_keydown(ctrlKey, metaKey, key) ==
    /\ IF (ctrlKey \/ metaKey) /\ key = "Enter"
       THEN assemble_run_click("on_editor_keydown")
       ELSE /\ last' = Last("on_editor_keydown", <<>>, "other_key", FALSE)
            /\ latest' = kept_latest
            /\ UNCHANGED <<error_output, tasks>>
    /\ run_log' = NoLog
    /\ UNCHANGED <<storage, examples, editor, args_input, args_display, args_display_value,
                   save_name_input, files_modal, args_modal, programs_list, examples_list,
                   data_files_list, listing_output, simulation_output, active_tab,
                   run_btn_disabled, assemble_btn_disabled, mmixal_factory, mmix_factory,
                   object_code, loader, mmixOutputCapture,
                   saved, uploaded, uploaded_ok, code_event>>

on_args_assemble_run ==
    /\ args_modal' = FALSE
    /\ assemble_run_click("on_args_assemble_run")
    /\ run_log' = NoLog
    /\ UNCHANGED <<storage, examples, editor, args_input, args_display, args_display_value,
                   save_name_input, files_modal, programs_list, examples_list,
                   data_files_list, listing_output, simulation_output, active_tab,
                   run_btn_disabled, assemble_btn_disabled, mmixal_factory, mmix_factory,
                   object_code, loader, mmixOutputCapture,
                   saved, uploaded, uploaded_ok, code_event>>

\* An on_run_click that did not look at self.object_code.
no_object_code_never(obj) == FALSE

\* on_run_click: `not self.object_code` (None, or a byte array of length 0).
no_object_code(obj) == obj = None \/ Len(obj[1]) = 0

on_run_click ==
    /\ IF mmix_factory = None
       THEN /\ error_output' = Msg("MMIX modules not loaded yet.", <<>>)
            /\ last' = Last("on_run_click", <<>>, "not_loaded", FALSE)
            /\ UNCHANGED tasks
       ELSE IF no_object_code(object_code)
       THEN /\ error_output' = Msg("Please assemble code first.", <<>>)
            /\ last' = Last("on_run_click", <<>>, "no_object_code", FALSE)
            /\ UNCHANGED tasks
       ELSE /\ Len(tasks) < MaxTasks
            /\ tasks' = ensure_future(tasks, "run", None)
            /\ last' = Last("on_run_click", <<>>, "launched", FALSE)
            /\ UNCHANGED error_output
    /\ run_log' = NoLog
    /\ latest' = kept_latest
    /\ UNCHANGED <<storage, examples, editor, args_input, args_display, args_display_value,
                   save_name_input, files_modal, args_modal, programs_list, examples_list,
                   data_files_list, listing_output, simulation_output, active_tab,
                   run_btn_disabled, assemble_btn_disabled, mmixal_factory, mmix_factory,
                   object_code, loader, mmixOutputCapture,
                   saved, uploaded, uploaded_ok, code_event>>

on_tab_click(tab_name) ==
    /\ active_tab' = tab_name
    /\ last' = Last("on_tab_click", <<>>, tab_name, FALSE)
    /\ run_log' = NoLog
    /\ latest' = kept_latest
    /\ UNCHANGED <<storage, examples, editor, args_input, args_display, args_display_value,
                   save_name_input, files_modal, args_modal, programs_list, examples_list,
                   data_files_list, error_output, listing_output, simulation_output,
                   run_btn_disabled, assemble_btn_disabled, mmixal_factory, mmix_factory,
                   object_code, loader, tasks, mmixOutputCapture,
                   saved, uploaded, uploaded_ok, code_event>>

\* ------------------------------------------------------------ coroutines
\* Every step below runs from one await to the next (or to the end), as the event
\* loop runs a coroutine.  A finished coroutine leaves `tasks`.
RemoveAt(ts, i) == SubSeq(ts, 1, i - 1) \o SubSeq(ts, i + 1, Len(ts))

\* The record of a coroutine step: no handler ran last.
CoroutineStep == Last("coroutine", <<>>, "", FALSE)

\* The event loop starts the coroutines in the order ensure_future scheduled them.
first_scheduled(i) == \A j \in 1..(i - 1) : tasks[j].pc # "start"

\* _do_assemble up to the await in assemble: clear_output, then the module instance
\* is awaited.
do_assemble_start(i) ==
    /\ tasks[i].kind = "assemble" /\ tasks[i].pc = "start"
    /\ first_scheduled(i)
    /\ listing_output' = EmptyText
    /\ simulation_output' = EmptyText
    /\ error_output' = NoMsg
    /\ tasks' = [tasks EXCEPT ![i].pc = "await_mmixal"]
    /\ run_log' = Log(tasks[i].req, "assemble", "started", None, None, None)
    /\ UNCHANGED latest
    /\ last' = CoroutineStep
    /\ UNCHANGED <<storage, examples, editor, args_input, args_display, args_display_value,
                   save_name_input, files_modal, args_modal, programs_list, examples_list,
                   data_files_list, active_tab, run_btn_disabled, assemble_btn_disabled,
                   mmixal_factory, mmix_factory, object_code, loader, mmixOutputCapture,
                   saved, uploaded, uploaded_ok, code_event>>

\* _do_assemble from the await to the end: assemble returns `result`.
do_assemble_resume(i, result) ==
    /\ tasks[i].kind = "assemble" /\ tasks[i].pc = "await_mmixal"
    /\ IF result.success
       THEN /\ listing_output' = result.listing[1]
            /\ active_tab' = "listing"
            /\ object_code' = result.object_code
            /\ run_btn_disabled' = FALSE
            /\ IF truthy(result.console_output)
               THEN error_output' = Msg("Assembly output:", result.console_output)
               ELSE UNCHANGED error_output
       ELSE /\ error_output' = assembly_error_msg(result)
            /\ run_btn_disabled' = TRUE
            /\ UNCHANGED <<listing_output, active_tab, object_code>>
    /\ tasks' = RemoveAt(tasks, i)
    /\ run_log' = Log(tasks[i].req, "assemble",
                      IF result.success THEN "assembled" ELSE "assembly_failed",
                      <<result>>, None, None)
    /\ latest' = produced_latest(tasks[i].req, result)
    /\ last' = CoroutineStep
    /\ UNCHANGED <<storage, examples, editor, args_input, args_display, args_display_value,
                   save_name_input, files_modal, args_modal, programs_list, examples_list,
                   data_files_list, simulation_output, assemble_btn_disabled,
                   mmixal_factory, mmix_factory, loader, mmixOutputCapture,
                   saved, uploaded, uploaded_ok, code_event>>

\* _do_assemble_and_run up to the await in assemble.
do_assemble_and_run_start(i) ==
    /\ tasks[i].kind = "assemble_and_run" /\ tasks[i].pc = "start"
    /\ first_scheduled(i)
    /\ active_tab' = "output"
    /\ listing_output' = EmptyText
    /\ simulation_output' = EmptyText
    /\ error_output' = NoMsg
    /\ tasks' = [tasks EXCEPT ![i].pc = "await_mmixal"]
    /\ run_log' = Log(tasks[i].req, "assemble_and_run", "started", None, None, None)
    /\ UNCHANGED latest
    /\ last' = CoroutineStep
    /\ UNCHANGED <<storage, examples, editor, args_input, args_display, args_display_value,
                   save_name_input, files_modal, args_modal, programs_list, examples_list,
                   data_files_list, run_btn_disabled, assemble_btn_disabled,
                   mmixal_factory, mmix_factory, object_code, loader, mmixOutputCapture,
                   saved, uploaded, uploaded_ok, code_event>>

\* A _do_assemble_and_run that looked at the exit code of mmixal alone.
do_assemble_and_run_stops_on_exit(result) == result.exit_code # <<0>>

\* _do_assemble_and_run: `if not result["success"]`.
do_assemble_and_run_stops(result) == ~result.success

\* _do_assemble_and_run from the await in assemble, which returns `result`, to the
\* end (assembly failed) or to the await in run_simulation.
do_assemble_and_run_assembled(i, result) ==
    /\ tasks[i].kind = "assemble_and_run" /\ tasks[i].pc = "await_mmixal"
    /\ IF do_assemble_and_run_stops(result)
       THEN /\ error_output' = assembly_error_msg(result)
            /\ run_btn_disabled' = TRUE
            /\ active_tab' = "errors"
            /\ tasks' = RemoveAt(tasks, i)
            /\ run_log' = Log(tasks[i].req, "assemble_and_run", "assembly_failed",
                              <<result>>, None, None)
            /\ UNCHANGED <<listing_output, object_code, mmixOutputCapture>>
       ELSE /\ listing_output' = result.listing[1]
            /\ object_code' = result.object_code
            /\ run_btn_disabled' = FALSE
            /\ IF truthy(result.console_output)
               THEN error_output' = Msg("Assembly output:", result.console_output)
               ELSE UNCHANGED error_output
            /\ mmixOutputCapture' = <<>>
            /\ tasks' = [tasks EXCEPT ![i].pc = "await_mmix",
                                      ![i].result = <<result>>,
                                      ![i].sim_object = object_code']
            /\ run_log' = Log(tasks[i].req, "assemble_and_run", "simulating",
                              <<result>>, object_code', None)
            /\ UNCHANGED active_tab
    /\ latest' = produced_latest(tasks[i].req, result)
    /\ last' = CoroutineStep
    /\ UNCHANGED <<storage, examples, editor, args_input, args_display, args_display_value,
                   save_name_input, files_modal, args_modal, programs_list, examples_list,
                   data_files_list, simulation_output, assemble_btn_disabled,
                   mmixal_factory, mmix_factory, loader,
                   saved, uploaded, uploaded_ok, code_event>>

\* window.mmixOutputCapture after the simulator of request req has run.
captured_after(captured, req, prints) ==
    IF prints THEN Append(captured, LineOf(req)) ELSE captured

\* run_simulation: str(e) of the exceptions that reach the outer except, raised while
\* the module instance is created, while the files are written, or by the simulator.
NotRaised == "no exception"
SimulateExceptions ==
    { "mmix_factory raised", "FS.writeFile raised", "callMain raised" }
SimulateRaises == { NotRaised } \cup SimulateExceptions

\* The simulator has run (to its exit, or to the exception callMain raised).
simulator_ran(raised) == raised \in { NotRaised, "callMain raised" }

\* run_simulation from its await to its return: the module instance is created and
\* the simulator runs, prints or not and exits with exit_code; or an exception is
\* raised on the way.
run_simulation_returns(req, raised, prints, exit_code) ==
    IF raised # NotRaised
    THEN simulation_exception(raised)
    ELSE simulation_result(captured_after(mmixOutputCapture, req, prints), exit_code)

\* _do_assemble_and_run from the await in run_simulation to the end.
do_assemble_and_run_simulated(i, raised, prints, exit_code) ==
    LET sim_result == run_simulation_returns(tasks[i].req, raised, prints, exit_code)
    IN  /\ tasks[i].kind = "assemble_and_run" /\ tasks[i].pc = "await_mmix"
        /\ mmixOutputCapture' =
              IF simulator_ran(raised)
              THEN captured_after(mmixOutputCapture, tasks[i].req, prints)
              ELSE mmixOutputCapture
        /\ IF sim_result.success
           THEN /\ simulation_output' = simulation_output_text(sim_result.output)
                /\ active_tab' = "output"
                /\ UNCHANGED error_output
           ELSE /\ error_output' = simulation_error_msg(sim_result)
                /\ active_tab' = "errors"
                /\ UNCHANGED simulation_output
        /\ tasks' = RemoveAt(tasks, i)
        /\ run_log' = Log(tasks[i].req, "assemble_and_run",
                          IF raised # NotRaised THEN "simulation_raised" ELSE "simulated",
                          tasks[i].result, tasks[i].sim_object, <<sim_result>>)
        /\ UNCHANGED latest
        /\ last' = CoroutineStep
        /\ UNCHANGED <<storage, examples, editor, args_input, args_display,
                       args_display_value, save_name_input, files_modal, args_modal,
                       programs_list, examples_list, data_files_list, listing_output,
                       run_btn_disabled, assemble_btn_disabled, mmixal_factory,
                       mmix_factory, object_code, loader,
                       saved, uploaded, uploaded_ok, code_event>>

\* _do_run up to the await in run_simulation, which is given self.object_code.
do_run_start(i) ==
    /\ tasks[i].kind = "run" /\ tasks[i].pc = "start"
    /\ first_scheduled(i)
    /\ mmixOutputCapture' = <<>>
    /\ tasks' = [tasks EXCEPT ![i].pc = "await_mmix", ![i].sim_object = object_code]
    /\ run_log' = Log(tasks[i].req, "run", "simulating", None, object_code, None)
    /\ UNCHANGED latest
    /\ last' = CoroutineStep
    /\ UNCHANGED <<storage, examples, dom_vars, mmixal_factory, mmix_factory, object_code,
                   loader, saved, uploaded, uploaded_ok, code_event>>

\* _do_run from the await in run_simulation to the end.
do_run_simulated(i, raised, prints, exit_code) ==
    LET result == run_simulation_returns(tasks[i].req, raised, prints, exit_code)
    IN  /\ tasks[i].kind = "run" /\ tasks[i].pc = "await_mmix"
        /\ mmixOutputCapture' =
              IF simulator_ran(raised)
              THEN captured_after(mmixOutputCapture, tasks[i].req, prints)
              ELSE mmixOutputCapture
        /\ IF result.success
           THEN /\ simulation_output' = simulation_output_text(result.output)
                /\ active_tab' = "output"
                /\ UNCHANGED error_output
           ELSE /\ error_output' = simulation_error_msg(result)
                /\ UNCHANGED <<simulation_output, active_tab>>
        /\ tasks' = RemoveAt(tasks, i)
        /\ run_log' = Log(tasks[i].req, "run",
                          IF raised # NotRaised THEN "simulation_raised" ELSE "simulated",
                          None, tasks[i].sim_object, <<result>>)
        /\ UNCHANGED latest
        /\ last' = CoroutineStep
        /\ UNCHANGED <<storage, examples, editor, args_input, args_display,
                       args_display_value, save_name_input, files_modal, args_modal,
                       programs_list, examples_list, data_files_list, listing_output,
                       run_btn_disabled, assemble_btn_disabled, mmixal_factory,
                       mmix_factory, object_code, loader,
                       saved, uploaded, uploaded_ok, code_event>>

\* ------------------------------------------------------ specifications
\* The first session on a page with empty localStorage, whatever examples it embeds.
Init == \E ex \in EmbeddedExamples : InitWith(ex)

\* The page as served: it embeds the hello example and another one.
ServedExamples == [k \in {HelloKey, FibKey} |-> IF k = HelloKey THEN HelloExample ELSE FibExample]
InitServed == InitWith(ServedExamples)

\* The codes typed into the editor under NextPrograms and NextLoading.
ProgramCodes == { <<>>, <<"a">> }

\* Saved programs: saving the editor's content under a name, deleting and loading.
NextPrograms ==
    \/ \E code \in ProgramCodes, wrote \in BOOLEAN : on_code_change(code, wrote)
    \/ \E raw \in NameInputs, now \in Times, wrote \in BOOLEAN : on_save_confirm(raw, now, wrote)
    \/ \E name \in Names, wrote \in BOOLEAN : playground_delete_program(name, wrote)
    \/ \E name \in Names, wrote \in BOOLEAN : load_program(name, wrote)

SpecPrograms == InitServed /\ [][NextPrograms]_vars

\* Uploaded data files.
NextFiles ==
    \/ \E f \in FileNames, content \in Contents, wrote \in BOOLEAN :
          on_data_file_selected(f, content, wrote)
    \/ \E f \in FileNames, wrote \in BOOLEAN : delete_file(f, wrote)
    \/ on_files_click
    \/ on_modal_cancel
    \/ page_load

SpecFiles == InitServed /\ [][NextFiles]_vars

\* The arguments: the input, the display row and the auto-saved value.
NextArgs ==
    \/ \E args \in ArgTexts, wrote \in BOOLEAN : on_args_change(args, wrote)
    \/ \E wrote \in BOOLEAN : on_args_clear(wrote)
    \/ on_edit_args_click
    \/ on_args_done
    \/ on_modal_cancel
    \/ page_load

SpecArgs == InitServed /\ [][NextArgs]_vars

\* Loading programs and examples from the files modal.
NextLoading ==
    \/ \E code \in {<<"a">>}, wrote \in BOOLEAN : on_code_change(code, wrote)
    \/ \E wrote \in BOOLEAN : on_save_confirm(<<"p">>, 0, wrote)
    \/ \E wrote \in BOOLEAN : playground_delete_program(<<"p">>, wrote)
    \/ \E name \in Names, wrote \in BOOLEAN : load_program(name, wrote)
    \/ \E key \in ExampleKeys, wrote \in BOOLEAN : load_example(key, wrote)
    \/ on_files_click
    \/ on_modal_cancel

SpecLoading == InitServed /\ [][NextLoading]_vars

\* The auto-saved code over sessions, whatever examples the page embeds.
NextCode ==
    \/ \E code \in Codes, wrote \in BOOLEAN : on_code_change(code, wrote)
    \/ \E code \in Codes, wrote \in BOOLEAN : on_import_file_selected(code, wrote)
    \/ \E wrote \in BOOLEAN : on_save_confirm(<<"p">>, 0, wrote)
    \/ \E wrote \in BOOLEAN : load_program(<<"p">>, wrote)
    \/ \E key \in {HelloKey, NoKey}, wrote \in BOOLEAN : load_example(key, wrote)
    \/ page_load

SpecCode == Init /\ [][NextCode]_vars

\* Assembling and running: the modules load, the user edits the code and clicks,
\* and the coroutines take their steps in any order.  A request is made while fewer
\* than MaxOverlap others are in flight, and the simulated programs print nothing.
RunCodes == { <<" ">>, <<"a">> }
overlap_bounded == Len(tasks') <= MaxOverlap

\* The coroutines of a kind that await their assemble call.
awaiting(kind) == { i \in 1..Len(tasks) : tasks[i].kind = kind /\ tasks[i].pc = "await_mmixal" }

NextRun ==
    \/ load_modules_start
    \/ \E ok \in BOOLEAN : load_modules_mmixal(ok)
    \/ \E ok \in BOOLEAN : load_modules_mmix(ok)
    \/ \E code \in RunCodes : on_code_change(code, TRUE)
    \/ on_assemble_run_click /\ overlap_bounded
    \/ on_assemble_click /\ overlap_bounded
    \/ \E ctrlKey, metaKey \in BOOLEAN, key \in {"Enter", "a"} :
          on_editor_keydown(ctrlKey, metaKey, key) /\ overlap_bounded
    \/ on_args_assemble_run /\ overlap_bounded
    \/ on_run_click /\ overlap_bounded
    \/ \E i \in 1..Len(tasks) : do_assemble_start(i)
    \/ \E i \in awaiting("assemble") : \E result \in AssembleResults(tasks[i].code[1]) :
          do_assemble_resume(i, result)
    \/ \E i \in 1..Len(tasks) : do_assemble_and_run_start(i)
    \/ \E i \in awaiting("assemble_and_run") : \E result \in AssembleResults(tasks[i].code[1]) :
          do_assemble_and_run_assembled(i, result)
    \/ \E i \in 1..Len(tasks), raised \in SimulateRaises, exit_code \in SimExitCodes :
          do_assemble_and_run_simulated(i, raised, FALSE, exit_code)
    \/ \E i \in 1..Len(tasks) : do_run_start(i)
    \/ \E i \in 1..Len(tasks), raised \in SimulateRaises, exit_code \in SimExitCodes :
          do_run_simulated(i, raised, FALSE, exit_code)

SpecRun == InitServed /\ [][NextRun]_vars

\* Overlapping requests: the modules load, the user edits the code and clicks while
\* up to MaxTasks requests are in flight, the simulated programs print or not, and
\* the awaited calls return in any order.
RaceAssembleResults(source) ==
    { r \in AssembleResults(source) :
          /\ r.console_output = <<>>
          /\ r.success \/ r.error = <<"callMain raised">> }

NextRace ==
    \/ load_modules_start
    \/ load_modules_mmixal(TRUE)
    \/ load_modules_mmix(TRUE)
    \/ on_code_change(<<"a">>, TRUE)
    \/ on_assemble_run_click
    \/ on_assemble_click
    \/ on_run_click
    \/ \E i \in 1..Len(tasks) : do_assemble_start(i)
    \/ \E i \in awaiting("assemble") : \E result \in RaceAssembleResults(tasks[i].code[1]) :
          do_assemble_resume(i, result)
    \/ \E i \in 1..Len(tasks) : do_assemble_and_run_start(i)
    \/ \E i \in awaiting("assemble_and_run") :
          \E result \in RaceAssembleResults(tasks[i].code[1]) :
              do_assemble_and_run_assembled(i, result)
    \/ \E i \in 1..Len(tasks), prints \in BOOLEAN :
          do_assemble_and_run_simulated(i, NotRaised, prints, 0)
    \/ \E i \in 1..Len(tasks) : do_run_start(i)
    \/ \E i \in 1..Len(tasks), prints \in BOOLEAN :
          do_run_simulated(i, NotRaised, prints, 0)

SpecRace == InitServed /\ [][NextRace]_vars

\* Requests that finish: the modules load, the user edits the code and clicks, and
\* every coroutine in flight takes its next step sooner or later: the event loop
\* runs each scheduled coroutine, and each awaited assembler or simulator call
\* returns or raises.
LiveAssembleResults(source) ==
    { r \in AssembleResults(source) :
          r.console_output = <<>> \/ (r.exit_code = <<1>> /\ r.object_code = None) }
LiveSimulations == { <<NotRaised, 0>>, <<NotRaised, 128>>, <<"callMain raised", 0>> }

\* The next step of the coroutine of request req.
coroutine_step(req) ==
    \E i \in 1..Len(tasks) :
        /\ tasks[i].req = req
        /\ \/ do_assemble_start(i)
           \/ /\ i \in awaiting("assemble")
              /\ \E result \in LiveAssembleResults(tasks[i].code[1]) :
                    do_assemble_resume(i, result)
           \/ do_assemble_and_run_start(i)
           \/ /\ i \in awaiting("assemble_and_run")
              /\ \E result \in LiveAssembleResults(tasks[i].code[1]) :
                    do_assemble_and_run_assembled(i, result)
           \/ \E sim \in LiveSimulations :
                 do_assemble_and_run_simulated(i, sim[1], FALSE, sim[2])
           \/ do_run_start(i)
           \/ \E sim \in LiveSimulations : do_run_simulated(i, sim[1], FALSE, sim[2])

NextLive ==
    \/ load_modules_start
    \/ load_modules_mmixal(TRUE)
    \/ load_modules_mmix(TRUE)
    \/ on_code_change(<<"a">>, TRUE)
    \/ on_assemble_run_click /\ overlap_bounded
    \/ on_assemble_click /\ overlap_bounded
    \/ on_run_click /\ overlap_bounded
    \/ \E req \in 1..MaxTasks : coroutine_step(req)

SpecLive ==
    /\ InitServed
    /\ [][NextLive]_vars
    /\ \A req \in 1..MaxTasks : WF_vars(coroutine_step(req))

\* Everything that is persisted, next to assembling and running: while the modules
\* load the user edits the code and the arguments, saves and deletes a program,
\* uploads and deletes a data file; then they assemble and run, one request at a
\* time.
modules_loading == loader = "start"
one_at_a_time == Len(tasks') <= 1

NextStorage ==
    \/ modules_loading /\ \E wrote \in BOOLEAN : on_code_change(<<"a">>, wrote)
    \/ modules_loading /\ \E wrote \in BOOLEAN : on_args_change(<<"x">>, wrote)
    \/ modules_loading /\ \E wrote \in BOOLEAN : on_args_clear(wrote)
    \/ modules_loading /\ \E wrote \in BOOLEAN : on_save_confirm(<<"p">>, 0, wrote)
    \/ modules_loading /\ \E wrote \in BOOLEAN : playground_delete_program(<<"p">>, wrote)
    \/ modules_loading /\ \E wrote \in BOOLEAN : on_data_file_selected(<<"f">>, <<"1">>, wrote)
    \/ modules_loading /\ \E wrote \in BOOLEAN : delete_file(<<"f">>, wrote)
    \/ load_modules_start
    \/ load_modules_mmixal(TRUE)
    \/ load_modules_mmix(TRUE)
    \/ on_assemble_run_click /\ one_at_a_time
    \/ on_run_click /\ one_at_a_time
    \/ \E req \in 1..MaxTasks : coroutine_step(req)

SpecStorage == InitServed /\ [][NextStorage]_vars

\* ---------------------------------------------------------------- claims
\* The stored program list and the names in it.
stored_programs == get_programs(storage)
is_stored(programs, name) == \E i \in 1..Len(programs) : programs[i].name = name

\* C1 as stated: after save_program(n, c) has returned True and any further
\* save_program / delete_program calls on other names, load_program(n) sets the
\* editor content to c and the auto-saved current code to c.
C1_Original ==
    (last.op = "load_program" /\ saved[last.name] # NoItem) =>
        /\ editor = saved[last.name][1]
        /\ getItem(storage, CURRENT_CODE_KEY) = saved[last.name]

\* C1 amended: after save_program(n, c) has returned True and any further
\* save_program / delete_program calls on other names, load_program(n) finds the
\* program and sets the editor content to exactly c; the auto-saved current code is
\* c when load_program's own localStorage write succeeds.
C1_RoundTrip ==
    (last.op = "load_program" /\ saved[last.name] # NoItem) =>
        /\ last.branch = "found"
        /\ editor = saved[last.name][1]
        /\ last.wrote => getItem(storage, CURRENT_CODE_KEY) = saved[last.name]

\* p was saved, then q with another code, and load_program(p) has run and written.
C1_Witness ==
    /\ last = Last("load_program", <<"p">>, "found", TRUE)
    /\ names_of(stored_programs) = << <<"p">>, <<"q">> >>
    /\ saved[<<"p">>] # NoItem /\ saved[<<"q">>] # NoItem
    /\ saved[<<"p">>] # saved[<<"q">>]
    /\ editor = saved[<<"p">>][1]

\* No two entries of the stored program list have the same name.
UniqueNames(programs) ==
    \A i, j \in 1..Len(programs) : programs[i].name = programs[j].name => i = j

\* The list is `old` with the code of the entry named `name` replaced by `code`:
\* same length, same names in the same order, the other entries untouched.
ReplacedInPlace(old, new, name, code) ==
    /\ Len(new) = Len(old)
    /\ \A i \in 1..Len(old) :
          /\ new[i].name = old[i].name
          /\ IF old[i].name = name THEN new[i].code = code ELSE new[i] = old[i]

\* The list is `old` with exactly one entry for `name` holding `code` added at the end.
AppendedAtEnd(old, new, name, code) ==
    /\ Len(new) = Len(old) + 1
    /\ SubSeq(new, 1, Len(old)) = old
    /\ new[Len(new)].name = name
    /\ new[Len(new)].code = code

\* What a save_program(name, code) call must do to the list, by C2.
UpdateOrAdd(old, new, name, code) ==
    IF is_stored(old, name)
    THEN ReplacedInPlace(old, new, name, code)
    ELSE AppendedAtEnd(old, new, name, code)

\* The step is a save_program call (on_save_confirm with a non-blank name).
SaveProgramStep == last'.op = "on_save_confirm" /\ last'.branch \in {"saved", "failed"}

\* C2 as stated: the stored list holds at most one entry per name, and every
\* save_program call replaces the code of the entry of a name already present in
\* place, or appends exactly one entry at the end for a new name.
C2_Original ==
    /\ [](UniqueNames(stored_programs))
    /\ [][SaveProgramStep =>
            UpdateOrAdd(stored_programs, stored_programs', last'.name, editor)]_vars

\* C2 amended: the stored list holds at most one entry per name; a save_program
\* call that returns True replaces the code of the entry of a name already present
\* in place (list length and order of entries unchanged) or appends exactly one
\* entry at the end for a new name; a call whose localStorage write fails returns
\* False and leaves the list unchanged.
C2_UpdateOrAdd ==
    /\ [](UniqueNames(stored_programs))
    /\ [][SaveProgramStep =>
            IF last'.branch = "saved"
            THEN UpdateOrAdd(stored_programs, stored_programs', last'.name, editor)
            ELSE stored_programs' = stored_programs]_vars

\* A save has replaced the code of the first of two stored entries.
C2_Witness ==
    /\ last = Last("on_save_confirm", <<"p">>, "saved", TRUE)
    /\ names_of(stored_programs) = << <<"p">>, <<"q">> >>
    /\ stored_programs[1].code = <<"a">>
    /\ stored_programs[2].code = <<"h">>
    /\ stored_programs[1].timestamp # stored_programs[2].timestamp

\* The step is a delete_program call.
DeleteProgramStep == last'.op = "delete_program"

\* `old` without its entries named `name`: the others in their order.
Others(old, name) ==
    LET Keep(p) == p.name # name
    IN  SelectSeq(old, Keep)

\* C3 as stated: delete_program(n) removes every stored program named n and nothing
\* else, and deleting a name that is not stored returns True and leaves the list
\* unchanged.
C3_Original ==
    [][DeleteProgramStep =>
          /\ stored_programs' = Others(stored_programs, last'.name)
          /\ ~is_stored(stored_programs, last'.name) =>
                (last'.branch = "deleted" /\ stored_programs' = stored_programs)]_vars

\* C3 amended: a delete_program(n) call whose localStorage write succeeds returns
\* True and removes every stored program named n and nothing else (the other
\* entries keep their code and relative order; when n is not stored the list is
\* unchanged, so a repeated delete changes nothing); a call whose write fails
\* returns False and leaves the list unchanged.
C3_DeleteFrame ==
    [][DeleteProgramStep =>
          IF last'.wrote
          THEN /\ last'.branch = "deleted"
               /\ stored_programs' = Others(stored_programs, last'.name)
               /\ ~is_stored(stored_programs', last'.name)
               /\ ~is_stored(stored_programs, last'.name) => stored_programs' = stored_programs
          ELSE /\ last'.branch = "failed"
               /\ stored_programs' = stored_programs]_vars

\* The first of two stored programs has been deleted and the second is left.
C3_Witness ==
    /\ last = Last("delete_program", <<"p">>, "deleted", TRUE)
    /\ names_of(stored_programs) = << <<"q">> >>
    /\ saved[<<"q">>] = << stored_programs[1].code >>
    /\ programs_list = << <<"q">> >>

\* The step is a load_program or a load_example call.
LoadStep == last'.op \in {"load_program", "load_example"}
\* The item the load of this step asks for exists.
LoadFinds ==
    IF last'.op = "load_program"
    THEN is_stored(stored_programs, last'.name)
    ELSE last'.name \in DOMAIN examples
\* The 'not found' message of this step's load.
NotFoundMsg ==
    IF last'.op = "load_program"
    THEN Msg("Program '{name}' not found", last'.name)
    ELSE Msg("Example '{key}' not found", last'.name)

\* C4: load_program(n) for a name not in storage and load_example(k) for a key not
\* in the examples show a 'not found' error and leave the editor content, the
\* auto-saved code and the files-modal visibility unchanged; a load closes the
\* files modal only when it succeeds.
C4_LoadMissing ==
    [][LoadStep =>
          /\ ~LoadFinds =>
                /\ error_output' = NotFoundMsg
                /\ editor' = editor
                /\ storage' = storage
                /\ files_modal' = files_modal
          /\ (files_modal /\ ~files_modal') => LoadFinds
          /\ LoadFinds => ~files_modal']_vars

\* A program was saved and deleted; loading it with the files modal open has
\* reported 'not found' and left the modal open.
C4_Witness ==
    /\ last = Last("load_program", <<"p">>, "not_found", FALSE)
    /\ error_output = Msg("Program '{name}' not found", <<"p">>)
    /\ files_modal
    /\ programs_list = <<>>
    /\ getItem(storage, PROGRAMS_KEY) # NoItem
    /\ editor = <<"a">>

\* The stored list of uploaded files.
stored_files == get_uploaded_files(storage)
content_of(files, name) ==
    files[CHOOSE i \in 1..Len(files) : files[i].name = name].content

\* C5 as stated: the stored file list holds at most one entry per file name, and
\* for every file name uploaded and not deleted since, the stored content is the
\* content of the most recent upload under that name.
C5_Original ==
    /\ UniqueNames(stored_files)
    /\ \A f \in FileNames :
          uploaded[f] # NoItem =>
             (is_stored(stored_files, f) /\ content_of(stored_files, f) = uploaded[f][1])

\* C5 amended: the stored file list holds at most one entry per file name; the
\* stored names are exactly those with an upload that returned True and no delete
\* that returned True since, and the stored content of each is the content of its
\* most recent upload that returned True (an upload or delete whose localStorage
\* write fails returns False and changes nothing).
C5_FilesByName ==
    /\ UniqueNames(stored_files)
    /\ \A f \in FileNames :
          IF uploaded_ok[f] # NoItem
          THEN is_stored(stored_files, f) /\ content_of(stored_files, f) = uploaded_ok[f][1]
          ELSE ~is_stored(stored_files, f)

\* f was uploaded before g and has just been uploaded again with other content;
\* the last upload of g failed.
C5_Witness ==
    /\ last = Last("on_data_file_selected", <<"f">>, "uploaded", TRUE)
    /\ names_of(stored_files) = << <<"f">>, <<"g">> >>
    /\ stored_files[1].content = <<"2">>
    /\ stored_files[2].content = <<"1">>
    /\ uploaded[<<"g">>] = << <<"2">> >>

\* C6: if the last code-changing event of a session left the editor holding
\* non-empty code c and its storage write succeeded, restore_code in the next
\* session sets the editor to exactly c, whatever examples are embedded.
C6_RestoreRoundTrip ==
    (/\ last.op = "page_load"
     /\ code_event # NoItem
     /\ code_event[1].wrote
     /\ truthy(code_event[1].code)) => editor = code_event[1].code

\* The previous session ended on blank but non-empty code, written to storage; the
\* page embeds the hello example and the new session has restored the blank code.
C6_Witness ==
    /\ last.op = "page_load"
    /\ HelloKey \in DOMAIN examples
    /\ code_event = <<[code |-> <<" ">>, wrote |-> TRUE, session |-> "previous"]>>
    /\ editor = <<" ">>

\* restore_code has just run (in __init__).
Restored == last.op \in {"init", "page_load"}

\* C7 as stated: the hello example is put into the editor only when storage holds
\* no auto-saved code entry; whenever an entry exists, whatever its value, the
\* editor is set to the saved value.
C7_Original ==
    Restored =>
        /\ last.branch = "hello" => getItem(storage, CURRENT_CODE_KEY) = NoItem
        /\ getItem(storage, CURRENT_CODE_KEY) # NoItem =>
              editor = getItem(storage, CURRENT_CODE_KEY)[1]

\* C7 amended: restore_code sets the editor to the auto-saved code whenever a
\* non-empty auto-saved code entry exists; when storage holds no entry or the entry
\* is the empty string (code saved after emptying the editor), the hello example is
\* put into the editor if the page embeds one, and otherwise the editor is left as
\* the page loaded it.
C7_RestoreOrDefault ==
    Restored =>
        LET item == getItem(storage, CURRENT_CODE_KEY)
        IN  IF item # NoItem /\ item[1] # <<>>
            THEN editor = item[1] /\ last.branch = "saved"
            ELSE IF HelloKey \in DOMAIN examples
                 THEN editor = examples[HelloKey].code /\ last.branch = "hello"
                 ELSE editor = EmptyText /\ last.branch = "none"

\* The user emptied the editor, the empty code was saved, and the next session
\* shows the hello example.
C7_Witness ==
    /\ last = Last("page_load", <<>>, "hello", FALSE)
    /\ getItem(storage, CURRENT_CODE_KEY) = << <<>> >>
    /\ code_event = <<[code |-> <<>>, wrote |-> TRUE, session |-> "previous"]>>
    /\ editor = <<"h">>

\* on_args_change or on_args_clear has just run.
ArgsHandled == last.op \in {"on_args_change", "on_args_clear"}

\* The display row follows the stripped args input.
ArgsDisplayed ==
    /\ args_display \in {"flex", "none"}
    /\ args_display = "flex" <=> truthy(strip(args_input))
    /\ args_display = "flex" => args_display_value = strip(args_input)

\* C8 as stated: after every on_args_change and on_args_clear the stored arguments
\* equal the raw args input, the display row is visible iff the stripped input is
\* non-blank and then shows the stripped input; on_args_clear leaves the input and
\* the stored arguments empty and the row hidden.
C8_Original ==
    ArgsHandled =>
        /\ load_current_args(storage) = args_input
        /\ ArgsDisplayed
        /\ last.op = "on_args_clear" =>
              (args_input = <<>> /\ load_current_args(storage) = <<>> /\ args_display = "none")

\* C8 amended: after every on_args_change and on_args_clear the display row is
\* visible iff the stripped args input is non-blank and then shows the stripped
\* input, and on_args_clear leaves the input empty and the row hidden; the stored
\* arguments equal the raw args input (empty after on_args_clear) when the
\* handler's localStorage write succeeded.
C8_ArgsSaved ==
    ArgsHandled =>
        /\ last.wrote => getItem(storage, CURRENT_ARGS_KEY) = <<args_input>>
        /\ ArgsDisplayed
        /\ last.op = "on_args_clear" => (args_input = <<>> /\ args_display = "none")

\* Arguments with leading whitespace were typed and saved: the row shows them stripped.
C8_Witness ==
    /\ last = Last("on_args_change", <<>>, "saved", TRUE)
    /\ args_input = <<" ", "x">>
    /\ getItem(storage, CURRENT_ARGS_KEY) = << <<" ", "x">> >>
    /\ args_display = "flex"
    /\ args_display_value = <<"x">>

\* The coroutine of request req is in flight.
in_flight(req) == \E i \in 1..Len(tasks) : tasks[i].req = req

\* C9: in an assemble-and-run request the simulator is invoked only after the
\* assembler of that same request has reported success, and it is given exactly the
\* object code that assembly produced (the object code of the request's own source);
\* when the assembly fails the simulator is never invoked for that request (the
\* coroutine has ended without reaching run_simulation), the run button is disabled,
\* the error pane holds the failure message and the errors tab is the active tab.
C9_SimulateAfterSuccess ==
    /\ \A i \in 1..Len(tasks) :
          (tasks[i].kind = "assemble_and_run" /\ tasks[i].pc = "await_mmix") =>
              /\ tasks[i].result # None
              /\ tasks[i].result[1].success
              /\ tasks[i].sim_object = tasks[i].result[1].object_code
              /\ tasks[i].sim_object = <<ObjectOf(tasks[i].code[1])>>
    /\ (/\ run_log.kind = "assemble_and_run"
        /\ run_log.step \in {"simulating", "simulated", "simulation_raised"}) =>
              /\ run_log.asm # None
              /\ run_log.asm[1].success
              /\ run_log.asm[1].exit_code = <<0>>
              /\ has_object_code(run_log.sim_object)
              /\ run_log.sim_object = run_log.asm[1].object_code
    /\ (run_log.kind = "assemble_and_run" /\ run_log.step = "assembly_failed") =>
              /\ ~run_log.asm[1].success
              /\ run_log.sim_object = None /\ run_log.sim = None
              /\ ~in_flight(run_log.req)
              /\ run_btn_disabled
              /\ error_output = assembly_error_msg(run_log.asm[1])
              /\ error_output # NoMsg
              /\ active_tab = "errors"

\* C9 happens: a request has assembled the edited code with success, the listing is
\* shown and its simulator is being started on the object code of that assembly.
C9_Witness ==
    /\ run_log.kind = "assemble_and_run" /\ run_log.step = "simulating"
    /\ run_log.asm[1].success
    /\ run_log.sim_object = <<ObjectOf("a")>>
    /\ listing_output = ListingOf("a")
    /\ in_flight(run_log.req)

\* The handlers that make an assemble-and-run request, and the step that launches
\* a coroutine.
RunRequestOps == {"on_assemble_run_click", "on_editor_keydown", "on_args_assemble_run"}
launches == Len(tasks') = Len(tasks) + 1
launched_kind == tasks'[Len(tasks')].kind
loaded(factory) == factory # None
non_blank(code) == truthy(strip(code))
request_messages ==
    { Msg("MMIX modules not loaded yet. Please wait...", <<>>),
      Msg("Please enter some MMIX code to assemble.", <<>>) }
rejected_unchanged ==
    /\ error_output' \in request_messages
    /\ UNCHANGED <<tasks, object_code, run_btn_disabled, listing_output,
                   simulation_output, storage>>

\* C10: on_assemble_run_click (also reached through Ctrl/Cmd-Enter and
\* on_args_assemble_run) launches no assembly unless both the assembler and the
\* simulator factory are loaded and the editor content is non-blank;
\* on_assemble_click launches no assembly unless the assembler factory is loaded and
\* the editor content is non-blank.  A request that does not meet its guard only
\* writes an error message: the coroutines in flight, object_code, the run button,
\* the listing and output panes and storage are unchanged.
C10_RequestGuards ==
    [][ /\ (last'.op \in RunRequestOps /\ last'.branch # "other_key") =>
              IF loaded(mmixal_factory) /\ loaded(mmix_factory) /\ non_blank(editor)
              THEN launches /\ launched_kind = "assemble_and_run"
              ELSE rejected_unchanged
        /\ last'.op = "on_assemble_click" =>
              IF loaded(mmixal_factory) /\ non_blank(editor)
              THEN launches /\ launched_kind = "assemble"
              ELSE rejected_unchanged
        /\ (last'.op \in RunRequestOps \cup {"on_assemble_click"} /\ tasks' # tasks) =>
              /\ launches
              /\ loaded(mmixal_factory) /\ non_blank(editor)
              /\ launched_kind = "assemble_and_run" => loaded(mmix_factory)
      ]_vars

\* C10 happens: the assembler is loaded and the editor holds code, the simulator
\* module has failed to load, and Assemble & Run in the arguments dialog has been
\* rejected with the not-loaded message.
C10_Witness ==
    /\ last = Last("on_args_assemble_run", <<>>, "not_loaded", FALSE)
    /\ loaded(mmixal_factory) /\ ~loaded(mmix_factory)
    /\ non_blank(editor)
    /\ error_output = Msg("MMIX modules not loaded yet. Please wait...", <<>>)
    /\ tasks = <<>>

\* Every simulation in flight, and the one a coroutine step has just started, has
\* been given object code that is not None and not empty.
simulations_have_object_code ==
    /\ \A i \in 1..Len(tasks) :
          tasks[i].pc = "await_mmix" => has_object_code(tasks[i].sim_object)
    /\ run_log.step \in {"simulating", "simulated", "simulation_raised"} =>
          has_object_code(run_log.sim_object)

\* self.object_code changes only in the coroutine step that has received a
\* successful assembly result, to the object code of that result.
object_code_from_assembly ==
    object_code' # object_code =>
        /\ run_log'.asm # None
        /\ run_log'.asm[1].success
        /\ has_object_code(object_code')
        /\ object_code' = run_log'.asm[1].object_code

\* C11: on_run_click never starts a simulation unless the simulator factory is
\* loaded and object_code holds the result of an earlier successful assembly;
\* otherwise it shows 'MMIX modules not loaded yet.' or 'Please assemble code first.'
\* and starts nothing.  Consequently run_simulation is never called with
\* object_code equal to None in any reachable state.
C11_RunGuard ==
    /\ []simulations_have_object_code
    /\ [][ /\ object_code_from_assembly
           /\ last'.op = "on_run_click" =>
                 IF ~loaded(mmix_factory)
                 THEN /\ error_output' = Msg("MMIX modules not loaded yet.", <<>>)
                      /\ UNCHANGED tasks
                 ELSE IF ~has_object_code(object_code)
                 THEN /\ error_output' = Msg("Please assemble code first.", <<>>)
                      /\ UNCHANGED tasks
                 ELSE /\ launches /\ launched_kind = "run"
                      /\ UNCHANGED error_output
           /\ \A i \in 1..Len(tasks) :
                 (/\ tasks[i].kind = "run" /\ tasks[i].pc = "start"
                  /\ Len(tasks') = Len(tasks) /\ tasks'[i].pc = "await_mmix") =>
                     /\ tasks'[i].sim_object = object_code
                     /\ has_object_code(object_code)
         ]_vars

\* C11 happens: Run has been clicked after a successful assembly of the edited
\* code, and the coroutine has called run_simulation with that object code.
C11_Witness ==
    /\ run_log.kind = "run" /\ run_log.step = "simulating"
    /\ run_log.sim_object = <<ObjectOf("a")>>
    /\ object_code = <<ObjectOf("a")>>
    /\ in_flight(run_log.req)

\* C12: assemble reports success if and only if the assembler's exit code is 0 and
\* the object file was read and is non-empty; an exception raised while creating
\* the module, writing the source or calling the assembler yields a result with
\* success False, an error text and an empty console_output instead of
\* propagating: the coroutine that awaited assemble goes on with that result.
C12_AssembleSuccess ==
    run_log.asm # None =>
        LET result == run_log.asm[1]
        IN  IF result.error = None
            THEN /\ result.exit_code # None
                 /\ result.success <=>
                       /\ result.exit_code[1] = 0
                       /\ result.object_code # None
                       /\ Len(result.object_code[1]) > 0
            ELSE /\ ~result.success
                 /\ result.error[1] \in AssembleExceptions
                 /\ result.error[1] # ""
                 /\ result.console_output = <<>>
                 /\ run_log.step = "assembly_failed"
                 /\ error_output = Msg(result.error[1], <<>>)

\* C12 happens: mmixal has exited with 0 and left an empty object file, and the
\* assembly is reported as failed.
C12_Witness ==
    /\ run_log.asm # None
    /\ run_log.asm[1].exit_code = <<0>>
    /\ run_log.asm[1].object_code = <<EmptyBytes>>
    /\ ~run_log.asm[1].success
    /\ run_log.step = "assembly_failed"

printed_lines(output) == { k \in 1..Len(output) : output[k][2] # 0 }

\* C14: the output returned by a run_simulation call consists only of text printed
\* by that call's own simulator run, also when a second simulation is started
\* while the first is still awaiting its module instance: for every interleaving
\* of two run_simulation calls neither result contains text printed by the other.
C14_OutputIsolation ==
    (run_log.sim # None /\ run_log.sim[1].error = None) =>
        \A k \in printed_lines(run_log.sim[1].output) :
            run_log.sim[1].output[k] = LineOf(run_log.req)

\* What the code does instead: a result holds every line printed since the latest
\* run_simulation call, by whichever simulator, reset window.mmixOutputCapture.
C14_SharedCapture ==
    (run_log.sim # None /\ run_log.sim[1].error = None) =>
        run_log.sim[1].output = simulation_output_text(mmixOutputCapture)

\* C15: if a second assemble or assemble-and-run request is launched while an
\* earlier one is still in flight, then once both have completed, object_code, the
\* listing pane and the enabled/disabled state of the run button are those
\* produced by the request that was launched last (the object code and listing of
\* its successful assembly with the run button enabled, or the run button
\* disabled when its assembly failed), whatever order the two awaited assembler
\* calls complete in.
C15_LastRequestWins ==
    (latest.overlapped /\ assembling(tasks) = {}) =>
        /\ latest.produced # None
        /\ IF latest.produced[1].success
           THEN /\ object_code = latest.produced[1].object_code
                /\ listing_output = latest.produced[1].listing[1]
                /\ ~run_btn_disabled
           ELSE run_btn_disabled

\* What the code does instead: the three are those of the assembler call that
\* returned last, whichever request awaited it.
C15_LastReturnWins ==
    [][ (run_log'.asm # None /\ run_log'.step \in {"assembled", "simulating", "assembly_failed"}) =>
            IF run_log'.asm[1].success
            THEN /\ object_code' = run_log'.asm[1].object_code
                 /\ listing_output' = run_log'.asm[1].listing[1]
                 /\ ~run_btn_disabled'
            ELSE /\ run_btn_disabled'
                 /\ UNCHANGED <<object_code, listing_output>>
      ]_vars

\* The steps with which a coroutine ends.
completed(req) ==
    /\ run_log.req = req
    /\ ~in_flight(req)
    /\ run_log.step \in {"assembled", "assembly_failed", "simulated", "simulation_raised"}

\* A coroutine that has just ended has written the listing or the simulation output
\* of its request to its pane, or an error message to the error pane.
completion_visible ==
    /\ run_log.step = "assembled" =>
          /\ ~in_flight(run_log.req)
          /\ listing_output = run_log.asm[1].listing[1]
          /\ listing_output # EmptyText
    /\ run_log.step = "assembly_failed" =>
          /\ ~in_flight(run_log.req)
          /\ error_output = assembly_error_msg(run_log.asm[1])
          /\ error_output # NoMsg
    /\ run_log.step \in {"simulated", "simulation_raised"} =>
          /\ ~in_flight(run_log.req)
          /\ IF run_log.sim[1].success
             THEN /\ simulation_output = run_log.sim[1].output
                  /\ simulation_output # EmptyText
             ELSE /\ error_output = simulation_error_msg(run_log.sim[1])
                  /\ error_output # NoMsg

only_key(after, own) == \A k \in Keys \ {own} : getItem(after, k) = getItem(storage, k)

\* Every StorageManager method that writes, called on the storage as it is now
\* with any input, leaves every key but its own as it is.
methods_keep_other_keys ==
    \A wrote \in BOOLEAN :
        /\ \A code \in Codes : only_key(save_current_code(storage, code, wrote), CURRENT_CODE_KEY)
        /\ \A args \in ArgTexts : only_key(save_current_args(storage, args, wrote), CURRENT_ARGS_KEY)
        /\ \A name \in Names, code \in Codes, now \in Times :
               only_key(save_program(storage, name, code, now, wrote).storage, PROGRAMS_KEY)
        /\ \A name \in Names : only_key(delete_program(storage, name, wrote).storage, PROGRAMS_KEY)
        /\ \A filename \in FileNames, content \in Contents :
               only_key(save_uploaded_file(storage, filename, content, wrote).storage, FILES_KEY)
        /\ \A filename \in FileNames :
               only_key(delete_uploaded_file(storage, filename, wrote).storage, FILES_KEY)

ProgramOps == {"on_save_confirm", "delete_program"}
FileOps == {"on_data_file_selected", "delete_file"}
AssembleRunOps ==
    RunRequestOps \cup {"on_assemble_click", "on_run_click", "coroutine", "load_modules_async"}

\* The same of the handlers that call them, and the steps of assembling and
\* running leave the whole storage as it is.
handlers_keep_other_keys ==
    /\ last'.op \in ProgramOps => only_key(storage, PROGRAMS_KEY)'
    /\ last'.op \in FileOps => only_key(storage, FILES_KEY)'
    /\ last'.op = "on_code_change" => only_key(storage, CURRENT_CODE_KEY)'
    /\ last'.op \in {"on_args_change", "on_args_clear"} => only_key(storage, CURRENT_ARGS_KEY)'
    /\ last'.op \in AssembleRunOps => storage' = storage

\* C17: the four persisted items are independent. Saving or deleting a program
\* leaves the uploaded files, the auto-saved code and the auto-saved arguments
\* unchanged; saving or deleting an uploaded file leaves the programs, the code
\* and the arguments unchanged; save_current_code and save_current_args each
\* change only their own key; no step of assembling or running writes to storage.
C17_IndependentKeys == []methods_keep_other_keys /\ [][handlers_keep_other_keys]_vars

\* C17 happens: all four keys hold something, the arguments are saved,
\* and a request has assembled and simulated on top of that storage.
C17_Witness ==
    /\ \A k \in Keys : getItem(storage, k) # NoItem
    /\ get_programs(storage) # <<>>
    /\ get_uploaded_files(storage) # <<>>
    /\ load_current_args(storage) = <<"x">>
    /\ run_log.kind = "assemble_and_run" /\ run_log.step = "simulated"
    /\ completed(run_log.req)

====
